---------------------------- MODULE Spec2Model ----------------------------
(***************************************************************************)
(* A model of filter-counts (src/src/main.rs): the single pass of main()   *)
(* over a tab-delimited HTSeq counts matrix.  Text is modelled character   *)
(* by character (a string is a sequence of one-character strings), and a   *)
(* u64 is modelled digit by digit as four 16-bit limbs, least significant  *)
(* first, so that parsing, formatting and overflow are what the code does. *)
(***************************************************************************)
EXTENDS Integers, Sequences, FiniteSets

(***************************************************************************)
(* u64 arithmetic                                                          *)
(***************************************************************************)

\* The width of the counters (u64).
U64Bits == 64

\* A u64 is U64Bits \div 16 limbs in base 2^16.
Base == 2^16

U64Limbs == U64Bits \div 16

Zero(n) == [i \in 1..n |-> 0]

\* A small natural number as an n-limb number.
FromNat(k, n) == [i \in 1..n |-> IF i = 1 THEN k % Base ELSE IF i = 2 THEN k \div Base ELSE 0]

U64(k) == FromNat(k, U64Limbs)

RECURSIVE Carry(_, _, _)
\* The carry out of limb i of a + b (two numbers of the same number of limbs).
Carry(a, b, i) == IF i = 0 THEN 0 ELSE (a[i] + b[i] + Carry(a, b, i - 1)) \div Base

\* a + b modulo Base^Len(a).
AddLimbs(a, b) == [i \in 1..Len(a) |-> (a[i] + b[i] + Carry(a, b, i - 1)) % Base]

\* u64::overflowing_add: the wrapped sum and whether the exact sum left the range.
OverflowingAdd(a, b) == [val |-> AddLimbs(a, b), overflow |-> Carry(a, b, Len(a)) # 0]

\* a < b for two numbers of the same number of limbs.
Lt(a, b) == \E i \in 1..Len(a) : a[i] < b[i] /\ \A j \in (i + 1)..Len(a) : a[j] = b[j]

Ge(a, b) == ~Lt(a, b)

RECURSIVE MulCarry(_, _, _, _)
\* The carry out of limb i of v * m + d (m, d small).
MulCarry(v, m, d, i) == IF i = 0 THEN d ELSE (v[i] * m + MulCarry(v, m, d, i - 1)) \div Base

\* v * m + d with its overflow flag (checked_mul followed by checked_add).
MulAdd(v, m, d) ==
    [val |-> [i \in 1..Len(v) |-> (v[i] * m + MulCarry(v, m, d, i - 1)) % Base],
     overflow |-> MulCarry(v, m, d, Len(v)) # 0]

RECURSIVE DivRem(_, _, _)
\* The remainder left after dividing limbs Len(v) down to i of v by m.
DivRem(v, m, i) == IF i > Len(v) THEN 0 ELSE (DivRem(v, m, i + 1) * Base + v[i]) % m

\* v \div m and v % m for a small m.
DivSmall(v, m) == [i \in 1..Len(v) |-> (DivRem(v, m, i + 1) * Base + v[i]) \div m]

ModSmall(v, m) == DivRem(v, m, 1)

(***************************************************************************)
(* Text                                                                    *)
(***************************************************************************)

DigitChars == <<"0", "1", "2", "3", "4", "5", "6", "7", "8", "9">>

IsDigit(c) == \E d \in 1..10 : DigitChars[d] = c

DigitVal(c) == (CHOOSE d \in 1..10 : DigitChars[d] = c) - 1

\* char::is_whitespace, on the characters the inputs use.
IsWhitespace(c) == c \in {" ", "\t", "\r", "\n"}

RECURSIVE TrimStart(_)
TrimStart(s) == IF s # <<>> /\ IsWhitespace(Head(s)) THEN TrimStart(Tail(s)) ELSE s

RECURSIVE TrimEnd(_)
TrimEnd(s) ==
    IF s # <<>> /\ IsWhitespace(s[Len(s)]) THEN TrimEnd(SubSeq(s, 1, Len(s) - 1)) ELSE s

\* str::trim
Trim(s) == TrimEnd(TrimStart(s))

RECURSIVE Split(_, _)
\* str::split(sep): the fields between the separators; one empty field for "".
Split(s, sep) ==
    IF \A i \in 1..Len(s) : s[i] # sep
    THEN <<s>>
    ELSE LET i == CHOOSE k \in 1..Len(s) : s[k] = sep /\ \A j \in 1..(k - 1) : s[j] # sep
         IN  <<SubSeq(s, 1, i - 1)>> \o Split(SubSeq(s, i + 1, Len(s)), sep)

RECURSIVE Join(_, _)
\* [String]::join(sep)
Join(fields, sep) ==
    IF fields = <<>> THEN <<>>
    ELSE IF Len(fields) = 1 THEN fields[1]
    ELSE fields[1] \o sep \o Join(Tail(fields), sep)

\* str::starts_with
StartsWith(s, p) == Len(s) >= Len(p) /\ SubSeq(s, 1, Len(p)) = p

RECURSIVE TrimStartMatches(_, _)
\* str::trim_start_matches(c): every leading c is removed.
TrimStartMatches(s, c) ==
    IF s # <<>> /\ Head(s) = c THEN TrimStartMatches(Tail(s), c) ELSE s

RECURSIVE ParseDigits(_, _)
\* The digits of s accumulated onto acc; fails on a non-digit or past u64::MAX.
ParseDigits(s, acc) ==
    IF s = <<>> THEN [ok |-> TRUE, val |-> acc]
    ELSE IF ~IsDigit(Head(s)) THEN [ok |-> FALSE, val |-> U64(0)]
    ELSE LET r == MulAdd(acc, 10, DigitVal(Head(s)))
         IN  IF r.overflow THEN [ok |-> FALSE, val |-> U64(0)]
             ELSE ParseDigits(Tail(s), r.val)

\* str::parse::<u64>: decimal digits after an optional "+".
ParseU64(s) ==
    IF s = <<>> THEN [ok |-> FALSE, val |-> U64(0)]
    ELSE IF Head(s) = "+"
         THEN IF Tail(s) = <<>> THEN [ok |-> FALSE, val |-> U64(0)]
              ELSE ParseDigits(Tail(s), U64(0))
         ELSE ParseDigits(s, U64(0))

RECURSIVE DigitsOf(_)
DigitsOf(v) ==
    IF v = Zero(Len(v)) THEN <<>>
    ELSE Append(DigitsOf(DivSmall(v, 10)), DigitChars[ModSmall(v, 10) + 1])

\* u64::to_string
U64ToString(v) == IF v = Zero(Len(v)) THEN <<"0">> ELSE DigitsOf(v)

(***************************************************************************)
(* The inputs: command lines, headers and data lines                       *)
(***************************************************************************)

\* The longest input, in data lines after the header.
MaxRows == 2

Tab == <<"\t">>

\* Option<T>: <<>> is None, <<v>> is Some(v).
None == <<>>

Some(v) == <<v>>

MinCounts == {None, Some(U64(5))}

MinExpresseds == {None, Some(2)}

ExpressionThresholds == {U64(1), U64(4)}

MetacountPaths == {None, Some("meta.tsv")}

\* struct Cli, without verbose and path.
Clis ==
    [min_count : MinCounts, min_expressed : MinExpresseds, filter_identical : BOOLEAN,
     expression_threshold : ExpressionThresholds, metacount_path : MetacountPaths,
     summary_metacounts : BOOLEAN]

Headers == {<<"g", "e", "n", "e", "\t", "A", "\t", "B">>}

TwoTo63 ==
    <<"9", "2", "2", "3", "3", "7", "2", "0", "3", "6", "8", "5", "4", "7", "7", "5", "8", "0", "8">>

Lines ==
    { <<"g", "1", "\t", "5", "\t", "0">>,
      <<"g", "2", "\t", "3", "\t", "3">>,
      <<"g", "3", "\t", "0", "\t", "0">>,
      <<"_", "_", "n", "f", "\t", "1", "0", "\t", "2", "0">>,
      <<"_", "_", "_", "x", "\t", "0", "0", "7", "\t", "+", "1">>,
      <<"g", "4", "\t", "5", "\t", "x">>,
      <<"_", "_", "b", "\t", "x", "\t", "1">>,
      <<"g", "5", "\t", "7", "\t">>,
      <<"g", "6", "\t", "1", "\t", "2", "\t", "3">>,
      <<>>,
      <<"g", "8", "\t">> \o TwoTo63 \o <<"\t", "0">>,
      <<"g", "9", "\t">> \o TwoTo63 \o Tab \o TwoTo63,
      <<"_", "_", "s", "\t", "1">> }

(***************************************************************************)
(* The state of main()                                                     *)
(***************************************************************************)

VARIABLES
    pc,               \* where main() is: start, loop, done, failed, panicked
    args,             \* the parsed command line
    overflow_checks,  \* the build: TRUE panics on integer overflow, FALSE wraps
    file_header,      \* the header line
    samples,          \* Vec<Sample>
    metacount_names,  \* Vec<String>
    total_genes,
    passed_genes,
    stdout,           \* the lines written to standard output
    metacount_file,   \* the lines written to the metacount file
    lines_read,       \* the data lines line_iter has yielded so far
    run,              \* 1, or 2 when the program runs again on its own output
    pending,          \* in run 2: the lines of the input not yet read
    first_stdout      \* in run 2: what run 1 wrote to standard output

vars ==
    <<pc, args, overflow_checks, file_header, samples, metacount_names, total_genes,
      passed_genes, stdout, metacount_file, lines_read, run, pending, first_stdout>>

\* MetacountDestination.is_stdout
IsStdout == args.metacount_path = None

\* MetacountDestination.prefix
Prefix == IF IsStdout THEN <<"_", "_">> ELSE <<>>

NewSample(name) ==
    [name |-> name, metacounts |-> <<>>, total_count |-> U64(0), passed_count |-> U64(0),
     total_expressed |-> 0, passed_expressed |-> 0]

Init ==
    /\ pc = "start"
    /\ args \in Clis
    /\ overflow_checks \in BOOLEAN
    /\ file_header = <<>>
    /\ samples = <<>>
    /\ metacount_names = <<>>
    /\ total_genes = 0
    /\ passed_genes = 0
    /\ stdout = <<>>
    /\ metacount_file = <<>>
    /\ lines_read = <<>>
    /\ run = 1
    /\ pending = <<>>
    /\ first_stdout = <<>>

(***************************************************************************)
(* Reading the input                                                       *)
(***************************************************************************)

\* The header lines line_iter.next() can yield: any header in a first run, the first
\* line of the previous output in a second run.
NextHeaders == IF run = 1 THEN Headers ELSE IF pending = <<>> THEN {} ELSE {Head(pending)}

\* The data lines the loop can read next.
NextLines ==
    IF run = 1 THEN (IF Len(lines_read) < MaxRows THEN Lines ELSE {})
    ELSE IF pending = <<>> THEN {} ELSE {Head(pending)}

\* The input can end here.
AtEof == run = 1 \/ pending = <<>>

Advance == pending' = IF run = 1 THEN pending ELSE Tail(pending)

\* line.trim().split('\t')
SplitLine(line) == Split(Trim(line), "\t")

\* The fields of the lines of Lines, computed once.
LineDataOfLines == [l \in Lines |-> SplitLine(l)]

\* line_data
LineData(line) == IF line \in Lines THEN LineDataOfLines[line] ELSE SplitLine(line)

\* line_data[0]
Gene(line) == LineData(line)[1]

\* line_data.iter().skip(1).map(|s| s.parse::<u64>())
ParseCounts(line) ==
    LET line_data == LineData(line)
    IN  [i \in 1..(Len(line_data) - 1) |-> ParseU64(line_data[i + 1])]

\* The parsed counts of the lines of Lines, computed once.
CountsOfLines == [l \in Lines |-> ParseCounts(l)]

\* The result of each parse, in field order.
Counts(line) == IF line \in Lines THEN CountsOfLines[line] ELSE ParseCounts(line)

\* A collect that looks at the first count only.
CountsOkFirstOnly(line) == LET c == Counts(line) IN IF c = <<>> THEN TRUE ELSE c[1].ok

\* A parse that lets a metagene through whatever its counts are.
CountsOkOrMetagene(line) ==
    \/ StartsWith(LineData(line)[1], <<"_", "_">>)
    \/ LET c == Counts(line) IN \A i \in 1..Len(c) : c[i].ok

\* collect::<Result<Vec<_>, _>>() is Ok
CountsOk(line) == LET c == Counts(line) IN \A i \in 1..Len(c) : c[i].ok

CountVals(line) == LET c == Counts(line) IN [i \in 1..Len(c) |-> c[i].val]

\* gene.starts_with("__")
IsMetagene(line) == StartsWith(Gene(line), <<"_", "_">>)

(***************************************************************************)
(* The steps of main()                                                     *)
(***************************************************************************)

\* The header is read, printed, and one Sample is made per name after the first.
ReadHeader(h) ==
    /\ pc = "start"
    /\ h \in NextHeaders
    /\ file_header' = h
    /\ stdout' = Append(stdout, h)
    /\ samples' = LET names == Tail(Split(Trim(h), "\t"))
                  IN  [i \in 1..Len(names) |-> NewSample(names[i])]
    /\ pc' = "loop"
    /\ Advance
    /\ UNCHANGED <<args, overflow_checks, metacount_names, total_genes, passed_genes,
                   metacount_file, lines_read, run, first_stdout>>

\* The input has no line at all: main returns an error.
NoHeader ==
    /\ pc = "start"
    /\ AtEof
    /\ pc' = "failed"
    /\ UNCHANGED <<args, overflow_checks, file_header, samples, metacount_names,
                   total_genes, passed_genes, stdout, metacount_file, lines_read, run,
                   pending, first_stdout>>

\* A line one of whose count fields does not parse: warn and continue.
SkipRow(line) ==
    /\ pc = "loop"
    /\ line \in NextLines
    /\ ~CountsOk(line)
    /\ lines_read' = Append(lines_read, line)
    /\ Advance
    /\ UNCHANGED <<pc, args, overflow_checks, file_header, samples, metacount_names,
                   total_genes, passed_genes, stdout, metacount_file, run, first_stdout>>

\* samples[m.0].metacounts.push(*m.1) for the counts the samples can take.
PushMetacounts(counts) ==
    [s \in 1..Len(samples) |->
        IF s <= Len(counts)
        THEN [samples[s] EXCEPT !.metacounts = Append(@, counts[s])]
        ELSE samples[s]]

\* A metagene: its name and counts are kept for the end; a count past the last
\* sample is an index out of bounds.
Metagene(line) ==
    /\ pc = "loop"
    /\ line \in NextLines
    /\ CountsOk(line)
    /\ IsMetagene(line)
    /\ metacount_names' = Append(metacount_names, Gene(line))
    /\ LET counts == CountVals(line)
       IN  /\ samples' = PushMetacounts(counts)
           /\ pc' = IF Len(counts) > Len(samples) THEN "panicked" ELSE "loop"
    /\ lines_read' = Append(lines_read, line)
    /\ Advance
    /\ UNCHANGED <<args, overflow_checks, file_header, total_genes, passed_genes, stdout,
                   metacount_file, run, first_stdout>>

\* x += y on u64: the build either panics on overflow or wraps.
AddU64(x, y) ==
    LET r == OverflowingAdd(x, y)
    IN  [val |-> r.val, panicked |-> r.overflow /\ overflow_checks]

\* *i.1 >= args.expression_threshold
Expressed(c) == Ge(c, args.expression_threshold)

RECURSIVE GeneStats(_, _, _)
\* The loop that accumulates gene_total, gene_nexpressed and the samples' totals,
\* from count i on; it stops where the code panics.
GeneStats(counts, i, acc) ==
    IF i > Len(counts) \/ acc.panicked THEN acc
    ELSE LET gt == AddU64(acc.gene_total, counts[i])
         IN  IF gt.panicked THEN [acc EXCEPT !.panicked = TRUE]
             ELSE IF i > Len(acc.samples)
             THEN [acc EXCEPT !.gene_total = gt.val, !.panicked = TRUE]
             ELSE LET tc == AddU64(acc.samples[i].total_count, counts[i])
                      e == IF Expressed(counts[i]) THEN 1 ELSE 0
                  IN  IF tc.panicked
                      THEN [acc EXCEPT !.gene_total = gt.val, !.panicked = TRUE]
                      ELSE GeneStats(counts, i + 1,
                             [gene_total |-> gt.val,
                              gene_nexpressed |-> acc.gene_nexpressed + e,
                              samples |-> [acc.samples EXCEPT
                                              ![i].total_count = tc.val,
                                              ![i].total_expressed = @ + e],
                              panicked |-> FALSE])

\* The filters with the second one reading the first sample's running total_expressed
\* on top of the gene's own count.
GeneFilteredOnRunningExpressed(counts, gene_total, gene_nexpressed) ==
    \/ args.min_count # None /\ Lt(gene_total, args.min_count[1])
    \/ /\ args.min_expressed # None
       /\ (IF samples = <<>> THEN 0 ELSE samples[1].total_expressed) + gene_nexpressed
              < args.min_expressed[1]
    \/ args.filter_identical /\ \A i \in 1..Len(counts) : counts[i] = counts[1]

\* The three filters; each sets gene_filtered.
GeneFiltered(counts, gene_total, gene_nexpressed) ==
    \/ args.min_count # None /\ Lt(gene_total, args.min_count[1])
    \/ args.min_expressed # None /\ gene_nexpressed < args.min_expressed[1]
    \/ args.filter_identical /\ \A i \in 1..Len(counts) : counts[i] = counts[1]

RECURSIVE RecordPassed(_, _, _)
\* The loop that accumulates the samples' passed counts, from count i on.
RecordPassed(counts, i, acc) ==
    IF i > Len(counts) \/ acc.panicked THEN acc
    ELSE IF i > Len(acc.samples) THEN [acc EXCEPT !.panicked = TRUE]
    ELSE LET pcount == AddU64(acc.samples[i].passed_count, counts[i])
             e == IF Expressed(counts[i]) THEN 1 ELSE 0
         IN  IF pcount.panicked THEN [acc EXCEPT !.panicked = TRUE]
             ELSE RecordPassed(counts, i + 1,
                    [samples |-> [acc.samples EXCEPT
                                     ![i].passed_count = pcount.val,
                                     ![i].passed_expressed = @ + e],
                     panicked |-> FALSE])

\* An ordinary gene: counted, accumulated, filtered and, if it passed, printed.
GeneRow(line) ==
    /\ pc = "loop"
    /\ line \in NextLines
    /\ CountsOk(line)
    /\ ~IsMetagene(line)
    /\ total_genes' = total_genes + 1
    /\ LET counts == CountVals(line)
           st == GeneStats(counts, 1,
                   [gene_total |-> U64(0), gene_nexpressed |-> 0, samples |-> samples,
                    panicked |-> FALSE])
           ps == RecordPassed(counts, 1, [samples |-> st.samples, panicked |-> FALSE])
       IN  IF st.panicked
           THEN /\ samples' = st.samples
                /\ pc' = "panicked"
                /\ UNCHANGED <<passed_genes, stdout>>
           ELSE IF GeneFiltered(counts, st.gene_total, st.gene_nexpressed)
           THEN /\ samples' = st.samples
                /\ pc' = "loop"
                /\ UNCHANGED <<passed_genes, stdout>>
           ELSE /\ passed_genes' = passed_genes + 1
                /\ stdout' = Append(stdout, Trim(line))
                /\ samples' = ps.samples
                /\ pc' = IF ps.panicked THEN "panicked" ELSE "loop"
    /\ lines_read' = Append(lines_read, line)
    /\ Advance
    /\ UNCHANGED <<args, overflow_checks, file_header, metacount_names, metacount_file,
                   run, first_stdout>>

\* The header of a metacount file: "feature" and the sample names.
MetacountHeader ==
    Join(<< <<"f", "e", "a", "t", "u", "r", "e">> >> \o
         [s \in 1..Len(samples) |-> samples[s].name], Tab)

\* One summary row: the prefix, the name, a tab and the samples' values.
SummaryRow(name, values) == Prefix \o name \o Tab \o Join(values, Tab)

\* The names of the four summary rows, in the order they are written.
SummaryNames ==
    << <<"t", "o", "t", "a", "l", "_", "c", "o", "u", "n", "t">>,
       <<"p", "a", "s", "s", "e", "d", "_", "c", "o", "u", "n", "t">>,
       <<"t", "o", "t", "a", "l", "_", "e", "x", "p", "r", "e", "s", "s", "e", "d">>,
       <<"p", "a", "s", "s", "e", "d", "_", "e", "x", "p", "r", "e", "s", "s", "e", "d">> >>

SummaryRows ==
    << SummaryRow(SummaryNames[1],
          [s \in 1..Len(samples) |-> U64ToString(samples[s].total_count)]),
       SummaryRow(SummaryNames[2],
          [s \in 1..Len(samples) |-> U64ToString(samples[s].passed_count)]),
       SummaryRow(SummaryNames[3],
          [s \in 1..Len(samples) |-> U64ToString(U64(samples[s].total_expressed))]),
       SummaryRow(SummaryNames[4],
          [s \in 1..Len(samples) |-> U64ToString(U64(samples[s].passed_expressed))]) >>

\* s.metacounts[m.0] exists for every sample.
MetacountsInRange(m) == \A s \in 1..Len(samples) : m <= Len(samples[s].metacounts)

\* The name stripped whatever the destination is.
MetacountNameStripped(m) == TrimStartMatches(metacount_names[m], "_")

\* The name a metagene is written under.
MetacountName(m) ==
    IF IsStdout THEN metacount_names[m] ELSE TrimStartMatches(metacount_names[m], "_")

MetacountRow(m) ==
    MetacountName(m) \o Tab \o
    Join([s \in 1..Len(samples) |-> U64ToString(samples[s].metacounts[m])], Tab)

RECURSIVE MetacountRows(_)
\* The metagene rows written from metagene m on, up to the first that panics.
MetacountRows(m) ==
    IF m > Len(metacount_names) \/ ~MetacountsInRange(m) THEN <<>>
    ELSE <<MetacountRow(m)>> \o MetacountRows(m + 1)

\* The summary rows written after the metagene rows.
MetacountOutputSummaryLast ==
    (IF IsStdout THEN <<>> ELSE <<MetacountHeader>>) \o
    MetacountRows(1) \o
    (IF args.summary_metacounts THEN SummaryRows ELSE <<>>)

\* Everything the end of main() writes to the metacount destination.
MetacountOutput ==
    (IF IsStdout THEN <<>> ELSE <<MetacountHeader>>) \o
    (IF args.summary_metacounts THEN SummaryRows ELSE <<>>) \o
    MetacountRows(1)

\* The input has ended: the metacount data is written.
WriteMetacounts ==
    /\ pc = "loop"
    /\ AtEof
    /\ IF IsStdout
       THEN stdout' = stdout \o MetacountOutput /\ UNCHANGED metacount_file
       ELSE metacount_file' = metacount_file \o MetacountOutput /\ UNCHANGED stdout
    /\ pc' = IF \A m \in 1..Len(metacount_names) : MetacountsInRange(m)
             THEN "done" ELSE "panicked"
    /\ UNCHANGED <<args, overflow_checks, file_header, samples, metacount_names,
                   total_genes, passed_genes, lines_read, run, pending, first_stdout>>

\* The pass completed, and the program is run again, with the same command line, on
\* what it printed.
Rerun ==
    /\ pc = "done"
    /\ run = 1
    /\ run' = 2
    /\ first_stdout' = stdout
    /\ pending' = stdout
    /\ pc' = "start"
    /\ file_header' = <<>>
    /\ samples' = <<>>
    /\ metacount_names' = <<>>
    /\ total_genes' = 0
    /\ passed_genes' = 0
    /\ stdout' = <<>>
    /\ metacount_file' = <<>>
    /\ lines_read' = <<>>
    /\ UNCHANGED <<args, overflow_checks>>

Next ==
    \/ \E h \in NextHeaders : ReadHeader(h)
    \/ NoHeader
    \/ \E line \in NextLines : SkipRow(line)
    \/ \E line \in NextLines : Metagene(line)
    \/ \E line \in NextLines : GeneRow(line)
    \/ WriteMetacounts

Spec == Init /\ [][Next]_vars

NextRerun == Next \/ Rerun

SpecRerun == Init /\ [][NextRerun]_vars

(***************************************************************************)
(* What the properties are stated in                                       *)
(***************************************************************************)

\* The number of samples the header fixed.
NumSamples == Len(samples)

\* The destination of the metacount data.
Dest == IF IsStdout THEN stdout ELSE metacount_file

\* A step that read one more data line.
ReadsALine == Len(lines_read') = Len(lines_read) + 1

\* The line such a step read.
LineJustRead == lines_read'[Len(lines_read')]

\* Everything of the pass but the record of the lines read.
Observable ==
    <<pc, total_genes, passed_genes, samples, metacount_names, stdout, metacount_file>>

\* The fields of a line as its text has them, between the tabs.
RawFields(line) == Split(line, "\t")

RawId(line) == RawFields(line)[1]

RawCountFields(line) == Tail(RawFields(line))

\* A field with a character that no number has.
NonNumericField(f) ==
    \E i \in 1..Len(f) : ~IsDigit(f[i]) /\ f[i] # "+" /\ ~IsWhitespace(f[i])

HasNonNumericCount(line) ==
    \E k \in 1..Len(RawCountFields(line)) : NonNumericField(RawCountFields(line)[k])

\* A number of n limbs as one of n + 1 limbs, wide enough for the exact sums.
Widen(v) == [i \in 1..(Len(v) + 1) |-> IF i <= Len(v) THEN v[i] ELSE 0]

RECURSIVE ExactSum(_)
\* The sum of a sequence of u64 as a natural number (one limb wider than u64).
ExactSum(vs) ==
    IF vs = <<>> THEN Zero(U64Limbs + 1) ELSE AddLimbs(Widen(Head(vs)), ExactSum(Tail(vs)))

\* The rows of the input that parsed and are not metafeatures.
OrdinaryRows == SelectSeq(lines_read, LAMBDA l : CountsOk(l) /\ ~IsMetagene(l))

\* The rows of the input that parsed and are metafeatures.
MetafeatureRows == SelectSeq(lines_read, LAMBDA l : CountsOk(l) /\ IsMetagene(l))

\* The number of samples of a row at or above the expression threshold.
NumExpressed(counts) ==
    Cardinality({s \in 1..Len(counts) : Ge(counts[s], args.expression_threshold)})

\* The row passes every predicate that is set, the sum being the exact one.
PassesEveryEnabled(counts) ==
    /\ args.min_count # None => Ge(ExactSum(counts), Widen(args.min_count[1]))
    /\ args.min_expressed # None => NumExpressed(counts) >= args.min_expressed[1]
    /\ args.filter_identical => \E s, t \in 1..Len(counts) : counts[s] # counts[t]

\* The step printed the row it read and counted it as passed.
Retains(line) ==
    /\ passed_genes' = passed_genes + 1
    /\ stdout' = Append(stdout, TrimEnd(line))

(***************************************************************************)
(* C1                                                                      *)
(***************************************************************************)

\* C1: every ordinary row that parsed (identifier not starting with "__", one count per
\* sample) is retained, that is printed and counted in passed_genes, if and only if it
\* passes every enabled predicate: its sum is at least min_count, at least
\* min_expressed of its counts reach the expression threshold, and with
\* filter_identical its counts are not all equal.
C1_RetainedIffPassesEveryEnabled ==
    [][(/\ ReadsALine
        /\ CountsOk(LineJustRead)
        /\ ~StartsWith(RawId(LineJustRead), <<"_", "_">>)
        /\ Len(CountVals(LineJustRead)) = NumSamples)
       => (Retains(LineJustRead) <=> PassesEveryEnabled(CountVals(LineJustRead)))]_vars

(***************************************************************************)
(* C8                                                                      *)
(***************************************************************************)

\* C8: after any prefix of the input, passed_genes <= total_genes and, for every
\* sample, passed_count <= total_count and passed_expressed <= total_expressed.
C8_PassedAtMostTotal ==
    /\ passed_genes <= total_genes
    /\ \A s \in 1..NumSamples :
          /\ ~Lt(samples[s].total_count, samples[s].passed_count)
          /\ samples[s].passed_expressed <= samples[s].total_expressed

(***************************************************************************)
(* C2                                                                      *)
(***************************************************************************)

\* The counts sample s has in the given rows (a row too short for s has none).
Column(rows, s) ==
    LET with == SelectSeq(rows, LAMBDA l : s <= Len(CountVals(l)))
    IN  [k \in 1..Len(with) |-> CountVals(with[k])[s]]

\* How many of the given counts reach the expression threshold.
NumAtThreshold(vs) == Cardinality({k \in 1..Len(vs) : Ge(vs[k], args.expression_threshold)})

\* The ordinary rows that pass every enabled predicate.
PassingRows == SelectSeq(OrdinaryRows, LAMBDA l : PassesEveryEnabled(CountVals(l)))

\* C2: once the whole input is consumed, total_genes is the number of ordinary rows
\* that parsed, total_count[s] the sum of their counts for s, total_expressed[s] the
\* number of them whose count for s reaches the expression threshold, and
\* passed_count[s], passed_expressed[s] the same over the retained rows; metafeature
\* and malformed rows contribute nothing.
C2_AggregatesAreTheSums ==
    pc = "done" =>
        /\ total_genes = Len(OrdinaryRows)
        /\ \A s \in 1..NumSamples :
              /\ Widen(samples[s].total_count) = ExactSum(Column(OrdinaryRows, s))
              /\ samples[s].total_expressed = NumAtThreshold(Column(OrdinaryRows, s))
              /\ Widen(samples[s].passed_count) = ExactSum(Column(PassingRows, s))
              /\ samples[s].passed_expressed = NumAtThreshold(Column(PassingRows, s))

(***************************************************************************)
(* C3                                                                      *)
(***************************************************************************)

\* C3: reading a data row with a non-numeric count field, wherever it stands in the
\* input, changes neither total_genes, passed_genes, any sample aggregate nor the
\* metafeature collection, and writes nothing: the pass goes on from the state it was
\* in, so the rows after it are processed as if it were absent.
C3_NonNumericRowSkipped ==
    [][(ReadsALine /\ HasNonNumericCount(LineJustRead)) => UNCHANGED Observable]_vars

\* A non-numeric row was read first, and the row after it was counted and retained.
C3_Witness ==
    /\ Len(lines_read) = 2
    /\ HasNonNumericCount(lines_read[1])
    /\ ~HasNonNumericCount(lines_read[2])
    /\ total_genes = 1
    /\ passed_genes = 1
    /\ Len(stdout) = 2

(***************************************************************************)
(* C5                                                                      *)
(***************************************************************************)

\* The identifier of a written row.
WrittenId(row) == RawFields(row)[1]

\* The last n lines of a sequence.
LastLines(seq, n) == SubSeq(seq, Len(seq) - n + 1, Len(seq))

\* C5: on a separate metacount destination each metafeature row is written under its
\* identifier without the leading two-character marker "__", the rest unchanged (a
\* further leading underscore is kept); on the combined stream under its identifier
\* unchanged.
C5_ExactlyTheMarkerStripped ==
    pc = "done" =>
        LET rows == MetafeatureRows
            written == LastLines(Dest, Len(rows))
        IN  /\ Len(Dest) >= Len(rows)
            /\ \A m \in 1..Len(rows) :
                  WrittenId(written[m]) =
                      IF args.metacount_path = None THEN RawId(rows[m])
                      ELSE SubSeq(RawId(rows[m]), 3, Len(RawId(rows[m])))

(***************************************************************************)
(* C9                                                                      *)
(***************************************************************************)

\* A row whose count fields are not one non-empty field per sample.
WrongFieldCount(line) ==
    \/ Len(RawCountFields(line)) # NumSamples
    \/ \E k \in 1..Len(RawCountFields(line)) : RawCountFields(line)[k] = <<>>

\* C9: a data row with fewer or more count fields than the header has samples (an
\* empty line and a row with a trailing empty field among them) is skipped: it changes
\* no counter, no sample aggregate and no output, and indexes no sample out of range.
C9_WrongFieldCountSkipped ==
    [][(ReadsALine /\ WrongFieldCount(LineJustRead)) => UNCHANGED Observable]_vars

(***************************************************************************)
(* C10                                                                     *)
(***************************************************************************)

\* C10: every row whose identifier starts with "__" is recorded in the metafeature
\* collection, whether or not its count fields are valid integers.
C10_MetafeatureKeptWhateverItsFields ==
    [][(ReadsALine /\ StartsWith(RawId(LineJustRead), <<"_", "_">>))
       => metacount_names' = Append(metacount_names, RawId(LineJustRead))]_vars

\* The text of the largest u64.
U64MaxText ==
    <<"1", "8", "4", "4", "6", "7", "4", "4", "0", "7", "3", "7", "0", "9", "5", "5", "1", "6",
      "1", "5">>

\* d <= e for two digit strings of the same length.
DigitsAtMost(d, e) ==
    \/ d = e
    \/ \E i \in 1..Len(d) :
          /\ DigitVal(d[i]) < DigitVal(e[i])
          /\ \A j \in 1..(i - 1) : d[j] = e[j]

\* The digits of a numeral: an optional "+" is dropped.
Unsigned(f) == IF f # <<>> /\ Head(f) = "+" THEN Tail(f) ELSE f

\* The text is a decimal numeral of a u64.
ValidU64Text(f) ==
    LET d == Unsigned(f)
        significant == TrimStartMatches(d, "0")
    IN  /\ d # <<>>
        /\ \A i \in 1..Len(d) : IsDigit(d[i])
        /\ \/ Len(significant) < Len(U64MaxText)
           \/ Len(significant) = Len(U64MaxText) /\ DigitsAtMost(significant, U64MaxText)

\* The count fields of a line are all decimal numerals of a u64.
AllCountsValid(line) ==
    LET fields == LineData(line) IN \A k \in 2..Len(fields) : ValidU64Text(fields[k])

\* The rows with a "__" identifier all of whose count fields are valid.
ValidMetafeatureRows ==
    SelectSeq(lines_read, LAMBDA l : StartsWith(Gene(l), <<"_", "_">>) /\ AllCountsValid(l))

\* The rows with another identifier all of whose count fields are valid.
ValidOrdinaryRows ==
    SelectSeq(lines_read, LAMBDA l : ~StartsWith(Gene(l), <<"_", "_">>) /\ AllCountsValid(l))

\* The identifier a metafeature row is written under.
MetafeatureIdWritten(line) ==
    IF args.metacount_path = None THEN Gene(line) ELSE TrimStartMatches(Gene(line), "_")

\* C10 (amended): a row is classified only after its count fields have parsed. A row
\* whose identifier starts with "__" is recorded in the metafeature collection, and
\* emitted at the end, exactly when every count field of the trimmed line is a valid
\* u64; with a field that is not, it is skipped like an ordinary row with such a field:
\* not recorded, not counted as a gene, not emitted.
C10_MetafeatureKeptOnlyIfItsFieldsParse ==
    LET rows == ValidMetafeatureRows
    IN  /\ metacount_names = [k \in 1..Len(rows) |-> Gene(rows[k])]
        /\ total_genes = Len(ValidOrdinaryRows)
        /\ pc = "done" =>
              /\ Len(Dest) >= Len(rows)
              /\ \A m \in 1..Len(rows) :
                    WrittenId(LastLines(Dest, Len(rows))[m]) = MetafeatureIdWritten(rows[m])

\* The pass ended after a "__" row with a non-numeric field and a valid one.
C10_Witness ==
    /\ pc = "done"
    /\ Len(lines_read) = 2
    /\ StartsWith(RawId(lines_read[1]), <<"_", "_">>)
    /\ HasNonNumericCount(lines_read[1])
    /\ Len(metacount_names) = 1
    /\ metacount_names[1] = RawId(lines_read[2])

(***************************************************************************)
(* C4                                                                      *)
(***************************************************************************)

NoFilters ==
    args.min_count = None /\ args.min_expressed = None /\ ~args.filter_identical

\* A numeral without its "+" and its leading zeros.
CanonicalNumeral(f) ==
    LET significant == TrimStartMatches(Unsigned(f), "0")
    IN  IF significant = <<>> THEN <<"0">> ELSE significant

\* A row with each count field as a canonical numeral.
CanonicalRow(line) ==
    LET fields == LineData(line)
    IN  fields[1] \o Tab \o
        Join([k \in 1..(Len(fields) - 1) |-> CanonicalNumeral(fields[k + 1])], Tab)

\* Every line read is a row of one canonical numeral per sample, so that writing it
\* from its parsed counts and writing it verbatim are the same.
AllRowsCanonical ==
    \A k \in 1..Len(lines_read) :
        /\ AllCountsValid(lines_read[k])
        /\ Len(LineData(lines_read[k])) = NumSamples + 1
        /\ lines_read[k] = CanonicalRow(lines_read[k])

\* C4: with no separate metacount destination, the main output is the header followed
\* by every retained ordinary row and every metafeature row, verbatim, in the order of
\* the input. (Stated where no filter is set and no summary is asked for, so that
\* every row read is one of these.)
C4_RowsInInputOrder ==
    (pc = "done" /\ IsStdout /\ NoFilters /\ ~args.summary_metacounts /\ AllRowsCanonical)
        => stdout = <<file_header>> \o lines_read

RECURSIVE IsSubsequence(_, _)
\* a is b with some of its elements left out.
IsSubsequence(a, b) ==
    IF a = <<>> THEN TRUE
    ELSE IF b = <<>> THEN FALSE
    ELSE IF Head(a) = Head(b) THEN IsSubsequence(Tail(a), Tail(b))
    ELSE IsSubsequence(a, Tail(b))

\* C4 (amended): with no separate metacount destination, the main output of a pass
\* that completes is the header, then the retained ordinary rows, verbatim (trimmed)
\* and in input order, then the four summary rows if they are asked for, and only then
\* the metafeature rows, in input order, each written from its parsed counts (its
\* identifier and its counts as canonical decimal numerals).
C4_OrdinaryRowsThenMetafeatureRows ==
    (pc = "done" /\ IsStdout) =>
        LET ordinary == [k \in 1..Len(OrdinaryRows) |-> Trim(OrdinaryRows[k])]
            meta == [k \in 1..Len(MetafeatureRows) |-> CanonicalRow(MetafeatureRows[k])]
            n == passed_genes
            nsummary == IF args.summary_metacounts THEN Len(SummaryNames) ELSE 0
        IN  /\ Len(stdout) = 1 + n + nsummary + Len(meta)
            /\ stdout[1] = file_header
            /\ IsSubsequence(SubSeq(stdout, 2, n + 1), ordinary)
            /\ NoFilters => SubSeq(stdout, 2, n + 1) = ordinary
            /\ SubSeq(stdout, n + nsummary + 2, Len(stdout)) = meta

\* A metafeature row was read before an ordinary row, and both were written.
C4_Witness ==
    /\ pc = "done"
    /\ IsStdout
    /\ Len(lines_read) = 2
    /\ Len(metacount_names) = 1
    /\ CountsOk(lines_read[1]) /\ IsMetagene(lines_read[1])
    /\ passed_genes = 1
    /\ lines_read[1] # CanonicalRow(lines_read[1])

(***************************************************************************)
(* C6                                                                      *)
(***************************************************************************)

\* The prefix of a summary row: the marker on the combined stream, none on a file.
SummaryPrefix == IF args.metacount_path = None THEN <<"_", "_">> ELSE <<>>

\* C6: with summary_metacounts, the rows total_count, passed_count, total_expressed,
\* passed_expressed are written to the metacount destination in that order, with the
\* "__" prefix on the combined stream and none on a file, after every metafeature row
\* of the input: they are the last four rows of the destination.
C6_SummaryRowsLast ==
    (pc = "done" /\ args.summary_metacounts) =>
        /\ Len(Dest) >= Len(SummaryNames)
        /\ \A i \in 1..Len(SummaryNames) :
              WrittenId(LastLines(Dest, Len(SummaryNames))[i]) = SummaryPrefix \o SummaryNames[i]

\* C6 (amended): with summary_metacounts, a pass that completes writes the rows
\* total_count, passed_count, total_expressed, passed_expressed to the metacount
\* destination in that order, with the "__" prefix on the combined stream and none on
\* a file, before every metafeature row of the input: right after the header of a
\* file, right after the retained rows on the combined stream, and no summary row is
\* written after a metafeature row.
C6_SummaryRowsFirst ==
    (pc = "done" /\ args.summary_metacounts) =>
        LET rows == MetafeatureRows
            base == IF args.metacount_path = None THEN 1 + passed_genes ELSE 1
        IN  /\ Len(Dest) = base + Len(SummaryNames) + Len(rows)
            /\ \A i \in 1..Len(SummaryNames) :
                  /\ WrittenId(Dest[base + i]) = SummaryPrefix \o SummaryNames[i]
                  /\ Len(RawFields(Dest[base + i])) = NumSamples + 1
            /\ \A m \in 1..Len(rows) :
                  WrittenId(Dest[base + Len(SummaryNames) + m]) = MetafeatureIdWritten(rows[m])

\* A pass with summary rows and a metafeature row completed, on a file.
C6_Witness ==
    /\ pc = "done"
    /\ args.summary_metacounts
    /\ args.metacount_path # None
    /\ Len(metacount_names) = 1
    /\ Len(metacount_file) = 6

(***************************************************************************)
(* C7                                                                      *)
(***************************************************************************)

Ended == pc \in {"done", "failed", "panicked"}

\* C7: the program run again, with the same flags, on the main output of a completed
\* run writes that same main output.
C7_Idempotent == (run = 2 /\ Ended) => stdout = first_stdout

\* C7 (amended): the program run again, with the same flags, on the main output of a
\* completed run writes that same main output, for every flag set that does not put
\* the summary rows on the main output (summary_metacounts off, or a separate
\* metacount file).
C7_IdempotentWithoutSummaryOnMain ==
    (run = 2 /\ Ended /\ ~(args.summary_metacounts /\ IsStdout)) => stdout = first_stdout

\* A second run, under a filter, completed on an output with a gene and a metafeature.
C7_Witness ==
    /\ run = 2
    /\ pc = "done"
    /\ ~(args.summary_metacounts /\ IsStdout)
    /\ IsStdout
    /\ ~NoFilters
    /\ passed_genes = 1
    /\ Len(metacount_names) = 1
    /\ Len(first_stdout) = 3

=============================================================================
